---- MODULE Spec2Model ----
(***************************************************************************)
(* TinyLink: the link creation, lookup, deletion and redirect handlers     *)
(* running as concurrent requests against one PostgreSQL table `links`     *)
(* (READ COMMITTED, the server default).  A request is a process; one      *)
(* action is the code of a handler between two awaits on the store.        *)
(***************************************************************************)
EXTENDS Integers, Sequences, FiniteSets, TLC

\* ---------------------------------------------------------------- bounds
MaxProcs == 3
MaxTime == 1
MaxRejected == 1

\* ------------------------------------------------------- program constants
MaxAttempts == 5
CodeLength == 6
MinCodeLen == 6
MaxCodeLen == 8
PoolMax == 10

Procs == 1..MaxProcs

\* undefined, as the one-lexeme text String(undefined) that new URL and
\* RegExp.test coerce it to; no request text equals it
NoValue == <<"undefined">>
\* a TIMESTAMP column holds <<t>>, or Null
Null == <<>>

\* ------------------------------------------------------------- lib/utils
Upper == {"A","B","C","D","E","F","G","H","I","J","K","L","M",
          "N","O","P","Q","R","S","T","U","V","W","X","Y","Z"}
Lower == {"a","b","c","d","e","f","g","h","i","j","k","l","m",
          "n","o","p","q","r","s","t","u","v","w","x","y","z"}
Digits == {"0","1","2","3","4","5","6","7","8","9"}

chars == <<"A","B","C","D","E","F","G","H","I","J","K","L","M",
           "N","O","P","Q","R","S","T","U","V","W","X","Y","Z",
           "a","b","c","d","e","f","g","h","i","j","k","l","m",
           "n","o","p","q","r","s","t","u","v","w","x","y","z",
           "0","1","2","3","4","5","6","7","8","9">>

\* rnd[i] is Math.floor(Math.random() * chars.length) of the i-th iteration
generateRandomCode(length, rnd) ==
    [i \in 1..length |-> chars[rnd[i] + 1]]

\* mutant: the pattern with any character, [^]{6,8}
validateCodeAnyChars(code) ==
    /\ Len(code) >= MinCodeLen
    /\ Len(code) <= MaxCodeLen

\* mutant: the pattern without its lower length bound
validateCodeNoMinimum(code) ==
    /\ Len(code) <= MaxCodeLen
    /\ \A i \in 1..Len(code) : code[i] \in Upper \cup Lower \cup Digits

validateCode(code) ==
    /\ Len(code) >= MinCodeLen
    /\ Len(code) <= MaxCodeLen
    /\ \A i \in 1..Len(code) : code[i] \in Upper \cup Lower \cup Digits

\* A url is a sequence of lexemes: scheme, ":", "//", host, path...
SchemeLexemes == {"http", "https", "HTTPS", "ftp"}
SpecialSchemes == {"http", "https", "ftp"}

toLower(s) == IF s = "HTTPS" THEN "https" ELSE s

\* new URL(url) without a base: the protocol of the parsed URL, or "throw"
parseProtocol(url) ==
    IF Len(url) >= 2 /\ url[1] \in SchemeLexemes /\ url[2] = ":"
    THEN LET scheme == toLower(url[1])
             rest == SubSeq(url, 3, Len(url))
             host == IF rest # <<>> /\ rest[1] = "//" THEN Tail(rest) ELSE rest
         IN  IF scheme \in SpecialSchemes /\ host = <<>>
             THEN "throw"
             ELSE scheme
    ELSE "throw"

\* mutant: any url that parses, whatever its protocol
validateUrlAnyProtocol(url) == parseProtocol(url) # "throw"

validateUrl(url) ==
    LET protocol == parseProtocol(url)
    IN  protocol = "http" \/ protocol = "https"

\* ------------------------------------------------------------ the inputs
Url1 == <<"https", ":", "//", "example.com">>
Url2 == <<"http", ":", "//", "other.org", "/page">>

UrlInputs ==
    { NoValue,
      <<>>,
      <<"not-a-url">>,
      <<"ftp", ":", "//", "files.example.com">>,
      Url1,
      Url2 }

\* outcomes of the CodeLength calls of Math.random made by one generation
Draw1 == [i \in 1..CodeLength |-> 0]
Draw2 == <<32, 34, 45, 33, 46, 27>>
RandomDraws == { Draw1, Draw2 }

CodeA == generateRandomCode(CodeLength, Draw1)
CodeG == generateRandomCode(CodeLength, Draw2)

CustomCodeInputs ==
    { NoValue,
      <<>>,
      <<"a","b">>,
      <<"g","i","t","-","h","u","b">>,
      <<"a","b","c","d","e","f","g","h","i">>,
      CodeA }

\* the request bodies of Url1 and of every url that is not http/https
CreateInputs == (UrlInputs \ {Url2}) \X CustomCodeInputs

\* request bodies that pass validation: one without custom code, one with CodeA
ValidInputs == { <<Url1, NoValue>>, <<Url2, CodeA>> }

PathCodes == { CodeA, CodeG }

\* ------------------------------------------------------------- the state
VARIABLES
    links,      \* the committed rows of table links
    nextId,     \* the sequence behind links.id (SERIAL)
    now,        \* the database clock
    req,        \* per request: handler position, locals and response
    pending,    \* per request: row versions its open transaction has written
    clients,    \* requests holding a client checked out of the pool
    freed,      \* history: codes whose delete succeeded, no create of them since
    dash        \* the dashboard page in one browser: its React state and calls

vars == <<links, nextId, now, req, pending, clients, freed, dash>>

NoLink == [id |-> 0, code |-> <<>>, url |-> <<>>, clicks |-> 0,
           last_clicked |-> Null, created_at |-> 0]

IdleReq ==
    [op |-> "none", pc |-> "idle", url |-> NoValue, customCode |-> NoValue,
     code |-> <<>>, attempts |-> 0, link |-> NoLink, txnStart |-> 0,
     status |-> 0, body |-> "", queries |-> 0, affected |-> {}, rows |-> <<>>,
     error |-> "", txn |-> "none", releases |-> 0]

\* mutant: the counter of a new row starts at 1
NewRowClicked(id, code, url, t) ==
    [id |-> id, code |-> code, url |-> url, clicks |-> 1,
     last_clicked |-> Null, created_at |-> t]

\* the row INSERT INTO links (code, url) builds from the column defaults
NewRow(id, code, url, t) ==
    [id |-> id, code |-> code, url |-> url, clicks |-> 0,
     last_clicked |-> Null, created_at |-> t]

\* the table a server starts on: empty, or holding a link made earlier
InitialTables == { {}, { NewRow(1, CodeA, Url1, 0) } }

\* a call of the dashboard that awaits a fetch: none yet
NoCall == [state |-> "none", code |-> <<>>, closure |-> <<>>]

\* Dashboard and LinksTable as constructed: useState([]), useState(true),
\* useState(null); removed is history: the codes whose onLinkDeleted has run
\* since the list was last fetched
DashMounting ==
    [links |-> <<>>, loading |-> TRUE, deletingCode |-> Null, removed |-> {},
     calls |-> [p \in Procs |-> NoCall]]

Init ==
    /\ links \in InitialTables
    /\ nextId = Cardinality(links) + 1
    /\ now = 0
    /\ req = [p \in Procs |-> IdleReq]
    /\ pending = [p \in Procs |-> {}]
    /\ clients = {}
    /\ freed = {}
    /\ dash = DashMounting

\* ------------------------------------------------------- store primitives
\* rows a statement of READ COMMITTED sees: the committed ones
RowsWithCode(code) == { r \in links : r.code = code }

\* mutant: no row lock
NoRowLock(p, rows) == FALSE

\* a row some other open transaction has written is locked until it ends
LockedByOther(p, rows) ==
    \E q \in Procs \ {p} : \E w \in pending[q] : \E r \in rows : w.id = r.id

\* mutant: no constraint on the column
NoUniqueConstraint(rows, code) == FALSE

\* the UNIQUE constraint on links.code
UniqueViolation(rows, code) == \E r \in rows : r.code = code

\* mutant: SET clicks = clicks + 1, without last_clicked
ClickedRowNoStamp(r, t) == [r EXCEPT !.clicks = @ + 1]

\* mutant: SET clicks = clicks + 2
ClickedRowTwice(r, t) == [r EXCEPT !.clicks = @ + 2, !.last_clicked = <<t>>]

\* mutant: SET last_clicked = GREATEST(last_clicked, NOW())
ClickedRowLatest(r, t) ==
    [r EXCEPT !.clicks = @ + 1,
              !.last_clicked = IF @ # Null /\ @[1] > t THEN @ ELSE <<t>>]

\* SET clicks = clicks + 1, last_clicked = NOW(); NOW() is the transaction start
ClickedRow(r, t) == [r EXCEPT !.clicks = @ + 1, !.last_clicked = <<t>>]

\* pool.query / pool.connect wait for a free client
PoolHasClient == Cardinality(clients) < PoolMax

\* requests arrive in the order of their numbers
MayStart(p) ==
    /\ req[p].pc = "idle"
    /\ \A q \in Procs : q < p => req[q].op # "none"

Rejected == { p \in Procs : req[p].status = 400 }

Respond(r, status, body) == [r EXCEPT !.pc = "done", !.status = status, !.body = body]

\* --------------------------------------------------- POST /api/links
\* SQLSTATE of the errors the store raises: unique_violation,
\* string_data_right_truncation, connection_failure, too_many_connections
UniqueViolationCode == "23505"
TooLongCode == "22001"
OtherErrors == { "08006", "53300" }

\* mutant: the catch block without its test of error.code
PostCatchGeneric(r, errorCode) ==
    Respond([r EXCEPT !.error = errorCode], 500, "Internal server error")

\* the catch block of POST
PostCatch(r, errorCode) ==
    IF errorCode = UniqueViolationCode
    THEN Respond([r EXCEPT !.error = errorCode], 409, "Code already exists")
    ELSE Respond([r EXCEPT !.error = errorCode], 500, "Internal server error")

\* `!url`: undefined and the empty string are falsy
UrlRejected(url) == url = NoValue \/ url = <<>> \/ ~validateUrl(url)

\* mutant: `if (code !== undefined)`
CodeSuppliedDefined(customCode) == customCode # NoValue

\* `if (code)`: a custom code was supplied (truthy)
CodeSupplied(customCode) == customCode # NoValue /\ customCode # <<>>

\* mutant: the existence probe runs for a custom code too
PostBeginProbesCustom(p, url, customCode, rnd) ==
    /\ MayStart(p)
    /\ LET r == [req[p] EXCEPT !.op = "create", !.url = url,
                               !.customCode = customCode]
       IN  IF UrlRejected(url)
           THEN /\ Cardinality(Rejected) < MaxRejected
                /\ req' = [req EXCEPT ![p] =
                               Respond(r, 400, "Please enter a valid URL")]
           ELSE IF CodeSupplied(customCode)
           THEN IF ~validateCode(customCode)
                THEN /\ Cardinality(Rejected) < MaxRejected
                     /\ req' = [req EXCEPT ![p] =
                               Respond([r EXCEPT !.code = customCode], 400,
                                       "Code must be 6-8 alphanumeric characters")]
                ELSE req' = [req EXCEPT ![p] =
                               [r EXCEPT !.code = customCode, !.pc = "probe"]]
           ELSE req' = [req EXCEPT ![p] =
                               [r EXCEPT !.code = generateRandomCode(CodeLength, rnd),
                                         !.attempts = 0, !.pc = "probe"]]
    /\ UNCHANGED <<links, nextId, now, pending, clients, freed, dash>>

\* the handler up to its first store call: validation and code selection
PostBegin(p, url, customCode, rnd) ==
    /\ MayStart(p)
    /\ LET r == [req[p] EXCEPT !.op = "create", !.url = url,
                               !.customCode = customCode]
       IN  IF UrlRejected(url)
           THEN /\ Cardinality(Rejected) < MaxRejected
                /\ req' = [req EXCEPT ![p] =
                               Respond(r, 400, "Please enter a valid URL")]
           ELSE IF CodeSupplied(customCode)
           THEN IF ~validateCode(customCode)
                THEN /\ Cardinality(Rejected) < MaxRejected
                     /\ req' = [req EXCEPT ![p] =
                               Respond([r EXCEPT !.code = customCode], 400,
                                       "Code must be 6-8 alphanumeric characters")]
                ELSE req' = [req EXCEPT ![p] =
                               [r EXCEPT !.code = customCode, !.pc = "insert"]]
           ELSE req' = [req EXCEPT ![p] =
                               [r EXCEPT !.code = generateRandomCode(CodeLength, rnd),
                                         !.attempts = 0, !.pc = "probe"]]
    /\ UNCHANGED <<links, nextId, now, pending, clients, freed, dash>>

\* mutant: `while (attempts <= 5)`
PostProbeSixth(p, rnd) ==
    /\ req[p].pc = "probe"
    /\ PoolHasClient
    /\ LET existing == RowsWithCode(req[p].code)
           r == [req[p] EXCEPT !.queries = @ + 1]
       IN  IF existing = {}
           THEN req' = [req EXCEPT ![p] = [r EXCEPT !.pc = "insert"]]
           ELSE req' = [req EXCEPT ![p] =
                    [r EXCEPT !.code = generateRandomCode(CodeLength, rnd),
                              !.attempts = @ + 1,
                              !.pc = IF req[p].attempts + 1 <= MaxAttempts
                                     THEN "probe" ELSE "insert"]]
    /\ UNCHANGED <<links, nextId, now, pending, clients, freed, dash>>

\* one iteration of `while (attempts < 5)`: the existence probe and what follows
PostProbe(p, rnd) ==
    /\ req[p].pc = "probe"
    /\ PoolHasClient
    /\ LET existing == RowsWithCode(req[p].code)
           r == [req[p] EXCEPT !.queries = @ + 1]
       IN  IF existing = {}
           THEN req' = [req EXCEPT ![p] = [r EXCEPT !.pc = "insert"]]
           ELSE req' = [req EXCEPT ![p] =
                    [r EXCEPT !.code = generateRandomCode(CodeLength, rnd),
                              !.attempts = @ + 1,
                              !.pc = IF req[p].attempts + 1 < MaxAttempts
                                     THEN "probe" ELSE "insert"]]
    /\ UNCHANGED <<links, nextId, now, pending, clients, freed, dash>>

\* mutant: the insert overwrites the url of a row that holds the code
PostInsertUpsert(p) ==
    /\ req[p].pc = "insert"
    /\ PoolHasClient
    /\ ~LockedByOther(p, RowsWithCode(req[p].code))
    /\ nextId' = nextId + 1
    /\ LET r == [req[p] EXCEPT !.queries = @ + 1]
           old == RowsWithCode(req[p].code)
           new == IF old = {}
                  THEN { NewRow(nextId, req[p].code, req[p].url, now) }
                  ELSE { [x EXCEPT !.url = req[p].url] : x \in old }
       IN  /\ links' = (links \ old) \cup new
           /\ \E row \in new :
                req' = [req EXCEPT ![p] =
                          Respond([r EXCEPT !.link = row, !.affected = {row.id}],
                                  201, "")]
    /\ freed' = freed \ {req[p].code}
    /\ UNCHANGED <<now, pending, clients, dash>>

\* mutant: a rejected insert of a generated code goes back to the probe loop
PostInsertRetry(p) ==
    /\ req[p].pc = "insert"
    /\ PoolHasClient
    /\ ~LockedByOther(p, RowsWithCode(req[p].code))
    /\ nextId' = nextId + 1
    /\ LET r == [req[p] EXCEPT !.queries = @ + 1]
           row == NewRow(nextId, req[p].code, req[p].url, now)
       IN  IF UniqueViolation(links, req[p].code)
           THEN /\ links' = links
                /\ freed' = freed
                /\ IF CodeSupplied(req[p].customCode) \/ req[p].attempts >= MaxAttempts
                   THEN req' = [req EXCEPT ![p] =
                                    PostCatch(r, UniqueViolationCode)]
                   ELSE \E rnd \in RandomDraws :
                            req' = [req EXCEPT ![p] =
                                [r EXCEPT !.code = generateRandomCode(CodeLength, rnd),
                                          !.attempts = @ + 1, !.pc = "probe"]]
           ELSE /\ links' = links \cup {row}
                /\ freed' = freed \ {req[p].code}
                /\ req' = [req EXCEPT ![p] =
                               Respond([r EXCEPT !.link = row, !.affected = {row.id}],
                                       201, "")]
    /\ UNCHANGED <<now, pending, clients, dash>>

\* mutant: the insert stores the origin of the url, without its path
PostInsertOrigin(p) ==
    /\ req[p].pc = "insert"
    /\ PoolHasClient
    /\ ~LockedByOther(p, RowsWithCode(req[p].code))
    /\ LET r == [req[p] EXCEPT !.queries = @ + 1]
           row == NewRow(nextId, req[p].code, SubSeq(req[p].url, 1, 4), now)
       IN  IF UniqueViolation(links, req[p].code)
           THEN /\ links' = links
                /\ nextId' = nextId + 1
                /\ freed' = freed
                /\ req' = [req EXCEPT ![p] = PostCatch(r, UniqueViolationCode)]
           ELSE /\ links' = links \cup {row}
                /\ nextId' = nextId + 1
                /\ freed' = freed \ {req[p].code}
                /\ req' = [req EXCEPT ![p] =
                               Respond([r EXCEPT !.link = row, !.affected = {row.id}],
                                       201, "")]
    /\ UNCHANGED <<now, pending, clients, dash>>

\* INSERT INTO links (code, url) VALUES ($1, $2) RETURNING *, and the response
PostInsert(p) ==
    /\ req[p].pc = "insert"
    /\ PoolHasClient
    /\ ~LockedByOther(p, RowsWithCode(req[p].code))
    /\ LET r == [req[p] EXCEPT !.queries = @ + 1]
           row == NewRow(nextId, req[p].code, req[p].url, now)
       IN  IF Len(req[p].code) > MaxCodeLen
           THEN \* value too long for VARCHAR(8): an error other than 23505
                /\ links' = links
                /\ nextId' = nextId
                /\ freed' = freed
                /\ req' = [req EXCEPT ![p] = PostCatch(r, TooLongCode)]
           ELSE IF UniqueViolation(links, req[p].code)
           THEN /\ links' = links
                /\ nextId' = nextId + 1
                /\ freed' = freed
                /\ req' = [req EXCEPT ![p] = PostCatch(r, UniqueViolationCode)]
           ELSE /\ links' = links \cup {row}
                /\ nextId' = nextId + 1
                /\ freed' = freed \ {req[p].code}
                /\ req' = [req EXCEPT ![p] =
                               Respond([r EXCEPT !.link = row, !.affected = {row.id}],
                                       201, "")]
    /\ UNCHANGED <<now, pending, clients, dash>>

\* pool.query of the probe or of the insert rejects with an error whose code
\* is not 23505 (the statement has no effect): the generic branch of the catch
PostStoreError(p, errorCode) ==
    /\ req[p].pc \in {"probe", "insert"}
    /\ req' = [req EXCEPT ![p] =
                   PostCatch([@ EXCEPT !.queries = @ + 1], errorCode)]
    /\ UNCHANGED <<links, nextId, now, pending, clients, freed, dash>>

\* ------------------------------------------------ GET /:code (redirect)
\* pool.connect() and BEGIN
VisitBegin(p, code) ==
    /\ MayStart(p)
    /\ PoolHasClient
    /\ clients' = clients \cup {p}
    /\ req' = [req EXCEPT ![p] = [@ EXCEPT !.op = "visit", !.code = code,
                                           !.txnStart = now, !.queries = 1,
                                           !.txn = "open", !.pc = "select"]]
    /\ UNCHANGED <<links, nextId, now, pending, freed, dash>>

\* pool.connect() rejects: no client, the outer catch answers 500
VisitConnectError(p, code, errorCode) ==
    /\ MayStart(p)
    /\ req' = [req EXCEPT ![p] =
                   Respond([@ EXCEPT !.op = "visit", !.code = code,
                                     !.error = errorCode],
                           500, "Internal server error")]
    /\ UNCHANGED <<links, nextId, now, pending, clients, freed, dash>>

\* BEGIN rejects: ROLLBACK in the catch, release in the finally, 500
VisitBeginError(p, code, errorCode) ==
    /\ MayStart(p)
    /\ PoolHasClient
    /\ req' = [req EXCEPT ![p] =
                   Respond([@ EXCEPT !.op = "visit", !.code = code,
                                     !.txnStart = now, !.queries = 2,
                                     !.error = errorCode, !.txn = "rollback",
                                     !.releases = @ + 1],
                           500, "Internal server error")]
    /\ UNCHANGED <<links, nextId, now, pending, clients, freed, dash>>

\* mutant: no check of result.rows.length
VisitSelectUnchecked(p) ==
    /\ req[p].pc = "select"
    /\ LET rows == RowsWithCode(req[p].code)
       IN  \E row \in rows \cup {NoLink} :
               /\ (rows # {} => row \in rows)
               /\ req' = [req EXCEPT ![p] = [@ EXCEPT !.queries = @ + 1,
                                                      !.link = row,
                                                      !.pc = "update"]]
    /\ UNCHANGED <<links, nextId, now, pending, clients, freed, dash>>

\* mutant: the 404 branch returns without ROLLBACK and without release
VisitSelectLeaks(p) ==
    /\ req[p].pc = "select"
    /\ LET rows == RowsWithCode(req[p].code)
       IN  IF rows = {}
           THEN req' = [req EXCEPT ![p] =
                            Respond([@ EXCEPT !.queries = @ + 1], 404, "Not found")]
           ELSE \E row \in rows :
                    req' = [req EXCEPT ![p] = [@ EXCEPT !.queries = @ + 1,
                                                        !.link = row,
                                                        !.pc = "update"]]
    /\ UNCHANGED <<links, nextId, now, pending, clients, freed, dash>>

\* SELECT * FROM links WHERE code = $1, and the 404 branch with its ROLLBACK
VisitSelect(p) ==
    /\ req[p].pc = "select"
    /\ LET rows == RowsWithCode(req[p].code)
       IN  IF rows = {}
           THEN /\ req' = [req EXCEPT ![p] =
                               Respond([@ EXCEPT !.queries = @ + 2,
                                                 !.txn = "rollback",
                                                 !.releases = @ + 1],
                                       404, "Not found")]
                /\ clients' = clients \ {p}
           ELSE /\ \E row \in rows :
                     req' = [req EXCEPT ![p] = [@ EXCEPT !.queries = @ + 1,
                                                         !.link = row,
                                                         !.pc = "update"]]
                /\ clients' = clients
    /\ UNCHANGED <<links, nextId, now, pending, freed, dash>>

\* mutant: the UPDATE writes the row of the lookup back when it is gone
VisitUpdateUpsert(p) ==
    /\ req[p].pc = "update"
    /\ LET rows == RowsWithCode(req[p].code)
           base == IF rows = {} THEN {req[p].link} ELSE rows
       IN  /\ ~LockedByOther(p, rows)
           /\ pending' = [pending EXCEPT ![p] =
                              { ClickedRow(r, req[p].txnStart) : r \in base }]
           /\ req' = [req EXCEPT ![p] = [@ EXCEPT !.queries = @ + 1,
                                                  !.affected = { r.id : r \in base },
                                                  !.pc = "commit"]]
    /\ UNCHANGED <<links, nextId, now, clients, freed, dash>>

\* mutant: the UPDATE without its WHERE clause
VisitUpdateAllRows(p) ==
    /\ req[p].pc = "update"
    /\ ~LockedByOther(p, links)
    /\ pending' = [pending EXCEPT ![p] =
                       { ClickedRow(r, req[p].txnStart) : r \in links }]
    /\ req' = [req EXCEPT ![p] = [@ EXCEPT !.queries = @ + 1,
                                           !.affected = { r.id : r \in links },
                                           !.pc = "commit"]]
    /\ UNCHANGED <<links, nextId, now, clients, freed, dash>>

\* UPDATE links SET clicks = clicks + 1, last_clicked = NOW() WHERE code = $1
VisitUpdate(p) ==
    /\ req[p].pc = "update"
    /\ LET rows == RowsWithCode(req[p].code)
       IN  /\ ~LockedByOther(p, rows)
           /\ pending' = [pending EXCEPT ![p] =
                              { ClickedRow(r, req[p].txnStart) : r \in rows }]
           /\ req' = [req EXCEPT ![p] = [@ EXCEPT !.queries = @ + 1,
                                                  !.affected = { r.id : r \in rows },
                                                  !.pc = "commit"]]
    /\ UNCHANGED <<links, nextId, now, clients, freed, dash>>

\* mutant: the commit writes the row of the lookup back when the update
\* matched no row
CommittedWithLookup(p) ==
    IF req[p].affected = {}
    THEN links \cup { ClickedRow(req[p].link, req[p].txnStart) }
    ELSE { r \in links : \A w \in pending[p] : w.id # r.id } \cup pending[p]

\* the rows of the table once transaction p has committed
Committed(p) ==
    { r \in links : \A w \in pending[p] : w.id # r.id } \cup pending[p]

\* COMMIT, NextResponse.redirect(link.url, 302), client.release()
VisitCommit(p) ==
    /\ req[p].pc = "commit"
    /\ links' = Committed(p)
    /\ pending' = [pending EXCEPT ![p] = {}]
    /\ clients' = clients \ {p}
    /\ req' = [req EXCEPT ![p] =
                   Respond([@ EXCEPT !.queries = @ + 1, !.txn = "commit",
                                     !.releases = @ + 1],
                           302, "redirect")]
    /\ UNCHANGED <<nextId, now, freed, dash>>

\* mutant: the catch commits what the transaction wrote
VisitStoreErrorCommits(p, errorCode) ==
    /\ req[p].pc \in {"select", "update", "commit"}
    /\ links' = Committed(p)
    /\ pending' = [pending EXCEPT ![p] = {}]
    /\ clients' = clients \ {p}
    /\ req' = [req EXCEPT ![p] =
                   Respond([@ EXCEPT !.queries = @ + 2, !.error = errorCode,
                                     !.txn = "commit", !.releases = @ + 1],
                           500, "Internal server error")]
    /\ UNCHANGED <<nextId, now, freed, dash>>

\* the SELECT, the UPDATE or the COMMIT rejects (the statement has no
\* effect): ROLLBACK in the catch, release in the finally, 500 from the outer
\* catch
VisitStoreError(p, errorCode) ==
    /\ req[p].pc \in {"select", "update", "commit"}
    /\ links' = links
    /\ pending' = [pending EXCEPT ![p] = {}]
    /\ clients' = clients \ {p}
    /\ req' = [req EXCEPT ![p] =
                   Respond([@ EXCEPT !.queries = @ + 2, !.error = errorCode,
                                     !.txn = "rollback", !.releases = @ + 1],
                           500, "Internal server error")]
    /\ UNCHANGED <<nextId, now, freed, dash>>

\* ------------------------------------------- /api/links/:code handlers
\* mutant: the row is reported deleted and stays in the table
DeleteLinkKeepsRow(p, code) ==
    /\ MayStart(p)
    /\ PoolHasClient
    /\ LET rows == RowsWithCode(code)
           r == [req[p] EXCEPT !.op = "delete", !.code = code, !.queries = 1,
                               !.affected = { x.id : x \in rows }]
       IN  /\ ~LockedByOther(p, rows)
           /\ links' = links
           /\ freed' = IF rows = {} THEN freed ELSE freed \cup {code}
           /\ req' = [req EXCEPT ![p] =
                          IF rows = {}
                          THEN Respond(r, 404, "Link not found")
                          ELSE Respond(r, 200, "Link deleted successfully")]
    /\ UNCHANGED <<nextId, now, pending, clients, dash>>

\* mutant: no test of result.rows.length
DeleteLinkAlwaysOk(p, code) ==
    /\ MayStart(p)
    /\ PoolHasClient
    /\ LET rows == RowsWithCode(code)
           r == [req[p] EXCEPT !.op = "delete", !.code = code, !.queries = 1,
                               !.affected = { x.id : x \in rows }]
       IN  /\ ~LockedByOther(p, rows)
           /\ links' = links \ rows
           /\ freed' = IF rows = {} THEN freed ELSE freed \cup {code}
           /\ req' = [req EXCEPT ![p] =
                          Respond(r, 200, "Link deleted successfully")]
    /\ UNCHANGED <<nextId, now, pending, clients, dash>>

\* DELETE FROM links WHERE code = $1 RETURNING *
DeleteLink(p, code) ==
    /\ MayStart(p)
    /\ PoolHasClient
    /\ LET rows == RowsWithCode(code)
           r == [req[p] EXCEPT !.op = "delete", !.code = code, !.queries = 1,
                               !.affected = { x.id : x \in rows }]
       IN  /\ ~LockedByOther(p, rows)
           /\ links' = links \ rows
           /\ freed' = IF rows = {} THEN freed ELSE freed \cup {code}
           /\ req' = [req EXCEPT ![p] =
                          IF rows = {}
                          THEN Respond(r, 404, "Link not found")
                          ELSE Respond(r, 200, "Link deleted successfully")]
    /\ UNCHANGED <<nextId, now, pending, clients, dash>>

\* SELECT * FROM links WHERE code = $1
GetLink(p, code) ==
    /\ MayStart(p)
    /\ PoolHasClient
    /\ LET rows == RowsWithCode(code)
           r == [req[p] EXCEPT !.op = "get", !.code = code, !.queries = 1]
       IN  IF rows = {}
           THEN req' = [req EXCEPT ![p] = Respond(r, 404, "Link not found")]
           ELSE \E row \in rows :
                    req' = [req EXCEPT ![p] = Respond([r EXCEPT !.link = row], 200, "")]
    /\ UNCHANGED <<links, nextId, now, pending, clients, freed, dash>>

\* ------------------------------------------------- GET /api/links (list)
\* ORDER BY created_at DESC
SortedDesc(s) ==
    \A i \in 1..Len(s) : \A j \in 1..Len(s) :
        i < j => s[i].created_at >= s[j].created_at

\* mutant: ORDER BY created_at ASC
SortedAsc(s) ==
    \A i \in 1..Len(s) : \A j \in 1..Len(s) :
        i < j => s[i].created_at <= s[j].created_at

\* the sequences that hold every row of the set once
Enumerations(rows) ==
    { s \in [1..Cardinality(rows) -> rows] :
          \A i \in 1..Cardinality(rows) : \A j \in 1..Cardinality(rows) :
              s[i] = s[j] => i = j }

\* mutant: the rows come back oldest first
ListLinksAscending(p) ==
    /\ MayStart(p)
    /\ PoolHasClient
    /\ \E s \in Enumerations(links) :
           /\ SortedAsc(s)
           /\ req' = [req EXCEPT ![p] =
                          Respond([@ EXCEPT !.op = "list", !.queries = 1, !.rows = s],
                                  200, "")]
    /\ UNCHANGED <<links, nextId, now, pending, clients, freed, dash>>

\* SELECT * FROM links ORDER BY created_at DESC; rows of equal created_at
\* come back in any order
ListLinks(p) ==
    /\ MayStart(p)
    /\ PoolHasClient
    /\ \E s \in Enumerations(links) :
           /\ SortedDesc(s)
           /\ req' = [req EXCEPT ![p] =
                          Respond([@ EXCEPT !.op = "list", !.queries = 1, !.rows = s],
                                  200, "")]
    /\ UNCHANGED <<links, nextId, now, pending, clients, freed, dash>>

\* ------------------------------------------------ the dashboard (page.tsx)
\* the codes of the links the table shows
Displayed == { dash.links[i].code : i \in 1..Len(dash.links) }

\* the browser issues its next request as p
DashMayCall(p) ==
    /\ req[p].pc = "idle"
    /\ dash.calls[p].state = "none"
    /\ \A q \in Procs :
           q < p => (req[q].op # "none" \/ dash.calls[q].state # "none")

\* fetchLinks up to `await fetch('/api/links')`, from the Refresh button:
\* setLoading(true) replaces LinksTable by the spinner, which drops its state
DashFetchLinks(p) ==
    /\ DashMayCall(p)
    /\ ~dash.loading
    /\ dash' = [dash EXCEPT !.loading = TRUE,
                            !.deletingCode = Null,
                            !.calls[p] = [NoCall EXCEPT !.state = "list"]]
    /\ UNCHANGED <<links, nextId, now, req, pending, clients, freed>>

\* the server answers the dashboard's list request
DashServeList(p) ==
    /\ dash.calls[p].state = "list"
    /\ ListLinks(p)

\* fetchLinks after the await: setLinks(data.links || []), setLoading(false)
DashFetchDone(p) ==
    /\ dash.calls[p].state = "list"
    /\ req[p].pc = "done"
    /\ dash' = [dash EXCEPT !.links = req[p].rows,
                            !.loading = FALSE,
                            !.removed = {},
                            !.calls[p].state = "done"]
    /\ UNCHANGED <<links, nextId, now, req, pending, clients, freed>>

\* handleDelete up to `await fetch(..., DELETE)`, confirm() accepted: the call
\* holds the onLinkDeleted of the render it was made in, whose `links` is the
\* list shown at that time
DashHandleDelete(p, code) ==
    /\ DashMayCall(p)
    /\ ~dash.loading
    /\ code \in Displayed
    /\ dash.deletingCode # code
    /\ dash' = [dash EXCEPT !.deletingCode = code,
                            !.calls[p] = [state |-> "delete", code |-> code,
                                          closure |-> dash.links]]
    /\ UNCHANGED <<links, nextId, now, req, pending, clients, freed>>

\* the server answers the dashboard's delete request
DashServeDelete(p) ==
    /\ dash.calls[p].state = "delete"
    /\ DeleteLink(p, dash.calls[p].code)

\* handleLinkDeleted: setLinks(links.filter(link => link.code !== code)) with
\* the links of the render the call was made in
handleLinkDeleted(closure, code) ==
    SelectSeq(closure, LAMBDA link : link.code # code)

\* handleDelete after the await: onLinkDeleted(code) when res.ok, the alert
\* otherwise, and setDeletingCode(null)
DashDeleteDone(p) ==
    /\ dash.calls[p].state = "delete"
    /\ req[p].pc = "done"
    /\ dash' = [dash EXCEPT
                  !.links = IF req[p].status = 200
                            THEN handleLinkDeleted(dash.calls[p].closure,
                                                   dash.calls[p].code)
                            ELSE @,
                  !.removed = IF req[p].status = 200
                              THEN @ \cup {dash.calls[p].code}
                              ELSE @,
                  !.deletingCode = Null,
                  !.calls[p].state = "done"]
    /\ UNCHANGED <<links, nextId, now, req, pending, clients, freed>>

\* ------------------------------------------------------------ the clock
Tick ==
    /\ now < MaxTime
    /\ now' = now + 1
    /\ UNCHANGED <<links, nextId, req, pending, clients, freed, dash>>

\* creates with valid bodies, visits and deletes, in any interleaving
Next ==
    \/ \E p \in Procs, in \in ValidInputs, rnd \in RandomDraws :
          PostBegin(p, in[1], in[2], rnd)
    \/ \E p \in Procs, rnd \in RandomDraws : PostProbe(p, rnd)
    \/ \E p \in Procs : PostInsert(p)
    \/ \E p \in Procs, code \in PathCodes : VisitBegin(p, code)
    \/ \E p \in Procs : VisitSelect(p)
    \/ \E p \in Procs : VisitUpdate(p)
    \/ \E p \in Procs : VisitCommit(p)
    \/ \E p \in Procs, code \in PathCodes : DeleteLink(p, code)

Spec == Init /\ [][Next]_vars

\* creates with valid bodies and deletes: the code allocator under contention
NextAlloc ==
    \/ \E p \in Procs, in \in ValidInputs, rnd \in RandomDraws :
          PostBegin(p, in[1], in[2], rnd)
    \/ \E p \in Procs, rnd \in RandomDraws : PostProbe(p, rnd)
    \/ \E p \in Procs : PostInsert(p)
    \/ \E p \in Procs, code \in PathCodes : DeleteLink(p, code)

SpecAlloc == Init /\ [][NextAlloc]_vars

\* the request bodies that carry CodeA as custom code
CustomInputs == { <<Url1, CodeA>>, <<Url2, CodeA>> }

\* creates with a custom code, visits, deletes, gets and lists: the life of
\* a link
NextLife ==
    \/ \E p \in Procs, in \in CustomInputs : PostBegin(p, in[1], in[2], Draw1)
    \/ \E p \in Procs : PostInsert(p)
    \/ \E p \in Procs, code \in PathCodes : VisitBegin(p, code)
    \/ \E p \in Procs : VisitSelect(p)
    \/ \E p \in Procs : VisitUpdate(p)
    \/ \E p \in Procs : VisitCommit(p)
    \/ \E p \in Procs, code \in PathCodes : DeleteLink(p, code)
    \/ \E p \in Procs, code \in PathCodes : GetLink(p, code)
    \/ \E p \in Procs : ListLinks(p)

SpecLife == Init /\ [][NextLife]_vars

\* no request is between its first step and its response
Quiet == \A q \in Procs : req[q].pc \in {"idle", "done"}

\* create requests with any body, one request at a time, Math.random fixed
NextInput ==
    \/ \E p \in Procs, in \in CreateInputs :
          Quiet /\ PostBegin(p, in[1], in[2], Draw2)
    \/ \E p \in Procs : PostProbe(p, Draw2)
    \/ \E p \in Procs : PostInsert(p)

SpecInput == Init /\ [][NextInput]_vars

\* the life of a link with the database clock running
NextClock == NextLife \/ Tick

SpecClock == Init /\ [][NextClock]_vars

\* creates, deletes and lists with the database clock running; Math.random
\* fixed
NextList ==
    \/ \E p \in Procs, in \in ValidInputs : PostBegin(p, in[1], in[2], Draw2)
    \/ \E p \in Procs : PostProbe(p, Draw2)
    \/ \E p \in Procs : PostInsert(p)
    \/ \E p \in Procs, code \in PathCodes : DeleteLink(p, code)
    \/ \E p \in Procs : ListLinks(p)
    \/ Tick

SpecList == Init /\ [][NextList]_vars

\* creates whose store statements may fail; Math.random fixed
NextFault ==
    \/ \E p \in Procs, in \in ValidInputs : PostBegin(p, in[1], in[2], Draw1)
    \/ \E p \in Procs : PostProbe(p, Draw1)
    \/ \E p \in Procs : PostInsert(p)
    \/ \E p \in Procs, errorCode \in OtherErrors : PostStoreError(p, errorCode)

SpecFault == Init /\ [][NextFault]_vars

\* visits whose store statements may fail, and deletes
NextVisitFault ==
    \/ \E p \in Procs, code \in PathCodes : VisitBegin(p, code)
    \/ \E p \in Procs, code \in PathCodes, errorCode \in OtherErrors :
          VisitConnectError(p, code, errorCode)
    \/ \E p \in Procs, code \in PathCodes, errorCode \in OtherErrors :
          VisitBeginError(p, code, errorCode)
    \/ \E p \in Procs : VisitSelect(p)
    \/ \E p \in Procs : VisitUpdate(p)
    \/ \E p \in Procs : VisitCommit(p)
    \/ \E p \in Procs, errorCode \in OtherErrors : VisitStoreError(p, errorCode)
    \/ \E p \in Procs, code \in PathCodes : DeleteLink(p, code)

SpecVisitFault == Init /\ [][NextVisitFault]_vars

\* the table behind a dashboard that shows two links
DashTable == { NewRow(1, CodeA, Url1, 0), NewRow(2, CodeG, Url2, 0) }

\* the dashboard after the fetchLinks of its mount (useEffect) has completed
InitDash ==
    /\ links = DashTable
    /\ nextId = Cardinality(DashTable) + 1
    /\ now = 0
    /\ req = [p \in Procs |-> IdleReq]
    /\ pending = [p \in Procs |-> {}]
    /\ clients = {}
    /\ freed = {}
    /\ \E s \in Enumerations(DashTable) :
           /\ SortedDesc(s)
           /\ dash = [DashMounting EXCEPT !.links = s, !.loading = FALSE]

\* one dashboard deleting and refreshing, and deletes from elsewhere
NextDash ==
    \/ \E p \in Procs : DashFetchLinks(p)
    \/ \E p \in Procs : DashServeList(p)
    \/ \E p \in Procs : DashFetchDone(p)
    \/ \E p \in Procs, code \in PathCodes : DashHandleDelete(p, code)
    \/ \E p \in Procs : DashServeDelete(p)
    \/ \E p \in Procs : DashDeleteDone(p)
    \/ \E p \in Procs, code \in PathCodes :
          dash.calls[p].state = "none" /\ DeleteLink(p, code)

SpecDash == InitDash /\ [][NextDash]_vars

\* ============================================================ properties
Done(p) == req[p].pc = "done"
Creates == { p \in Procs : req[p].op = "create" }
Visits == { p \in Procs : req[p].op = "visit" }
Deletes == { p \in Procs : req[p].op = "delete" }

\* no delete of code c has succeeded
NoDeleteOf(c) == \A q \in Deletes : ~(req[q].code = c /\ req[q].status = 200)

\* the visits to code c that were answered with the redirect
Redirected(c) == { p \in Visits : req[p].code = c /\ req[p].status = 302 }

\* the row as it was inserted, before any click
AsInserted(r) == [r EXCEPT !.clicks = 0, !.last_clicked = Null]

\* ------------------------------------------------------------------ C1
\* C1: in every reachable state no two rows of links have the same code,
\* whatever the interleaving of custom-code and random-code creates,
\* deletes and visits.
UniqueCodes ==
    \A r1 \in links : \A r2 \in links : r1.code = r2.code => r1 = r2

\* two creates raced for one code: the loser's probe had found it unused
\* (no regeneration), and its insert was rejected
UniqueCodesWitness ==
    \E p \in Creates : \E q \in Creates :
        /\ p # q /\ Done(p) /\ Done(q)
        /\ req[p].code = req[q].code
        /\ req[p].status = 201
        /\ req[q].status = 409
        /\ req[q].customCode = NoValue
        /\ req[q].attempts = 0

\* ------------------------------------------------------------------ C2
\* C2: while no delete of its code has succeeded, a link's clicks equals the
\* number of visits to its code that have completed with the redirect: N
\* concurrent visits add exactly N.
ClicksConserved ==
    \A r \in links :
        NoDeleteOf(r.code) => r.clicks = Cardinality(Redirected(r.code))

\* two visits whose lookups both saw clicks = 0 have both completed
ClicksConservedWitness ==
    \E r \in links : \E p \in Redirected(r.code) : \E q \in Redirected(r.code) :
        /\ p # q
        /\ NoDeleteOf(r.code)
        /\ req[p].link.clicks = 0
        /\ req[q].link.clicks = 0
        /\ r.clicks = 2

\* ------------------------------------------------------------------ C3
\* the row the visit's lookup returned was gone when its UPDATE ran
DeletedAfterLookup(p) ==
    /\ req[p].op = "visit"
    /\ req[p].pc \in {"commit", "done"}
    /\ req[p].link # NoLink
    /\ req[p].link.id \notin req[p].affected

\* C3: a visit whose link was deleted between its lookup and its increment
\* answers 404 Not found, never the redirect.
RacedVisitNotFound ==
    \A p \in Visits :
        (Done(p) /\ DeletedAfterLookup(p)) => req[p].status = 404

\* ------------------------------------------------------------------ C4
\* the finished create requests that carried c as custom code
CustomCreates(c) ==
    { p \in Creates : Done(p) /\ req[p].customCode = c }

Winners(c) == { p \in CustomCreates(c) : req[p].status = 201 }

\* the link with code c that the table held from the start
FromInit(c) ==
    \E r \in links : r.code = c /\ \A p \in Creates : r.id \notin req[p].affected

\* C4: while no delete of code c has succeeded, of the create requests that
\* carried c as custom code exactly one succeeded (none, when the table held c
\* from the start), every other one was answered 409 Code already exists, and
\* the link with code c is still the row as the winner inserted it, changed
\* by visits alone.
CustomCodeOnce ==
    \A c \in PathCodes :
        (NoDeleteOf(c) /\ CustomCreates(c) # {}) =>
            /\ Cardinality(Winners(c)) = (IF FromInit(c) THEN 0 ELSE 1)
            /\ \A p \in CustomCreates(c) \ Winners(c) :
                   /\ req[p].status = 409
                   /\ req[p].body = "Code already exists"
                   /\ req[p].affected = {}
            /\ \E r \in links :
                   /\ r.code = c
                   /\ r.clicks = Cardinality(Redirected(c))
                   /\ IF FromInit(c)
                      THEN AsInserted(r) \in UNION InitialTables
                      ELSE \A w \in Winners(c) : AsInserted(r) = req[w].link

\* three creates carried the same custom code with two different urls: one
\* won and two were refused
CustomCodeOnceWitness ==
    \E c \in PathCodes :
        /\ NoDeleteOf(c)
        /\ Cardinality(CustomCreates(c)) = 3
        /\ Cardinality(Winners(c)) = 1
        /\ \E p \in CustomCreates(c) : \E w \in Winners(c) : req[p].url # req[w].url

\* ------------------------------------------------------------------ C5
\* a create without custom code all of whose MaxAttempts probes collided
Exhausted(p) ==
    /\ req[p].op = "create"
    /\ ~CodeSupplied(req[p].customCode)
    /\ req[p].attempts = MaxAttempts

\* C5: a create without custom code whose 5 probes all collided fails and
\* inserts no row.
ExhaustedAllocationFails ==
    \A p \in Creates :
        (Done(p) /\ Exhausted(p)) =>
            /\ req[p].status # 201
            /\ req[p].affected = {}
            /\ \A r \in links : r # req[p].link

DeletionFinal ==
    [][ \A p \in Procs :
          (req'[p] # req[p] /\ req'[p].code \in freed) =>
            /\ req[p].pc = "select" =>
                   (req'[p].pc = "done" /\ req'[p].status = 404)
            /\ req'[p].op = "get" =>
                   (req'[p].status = 404 /\ req'[p].link = NoLink)
            /\ (req[p].pc = "insert" /\ CodeSupplied(req[p].customCode)) =>
                   /\ req'[p].status = 201
                   /\ req'[p].link.code = req[p].code
                   /\ req'[p].link.clicks = 0
                   /\ req'[p].link.last_clicked = Null
                   /\ req'[p].link \in links'
                   /\ \A r \in links : r.id # req'[p].link.id
                   /\ req[p].code \notin freed' ]_vars

\* the link the table held from the start was deleted, a visit to its code
\* was then answered 404, and a create with that custom code made a new row
DeletionFinalWitness ==
    \E d \in Deletes : \E v \in Visits : \E c \in Creates :
        /\ req[d].status = 200
        /\ req[v].code = req[d].code
        /\ req[v].status = 404
        /\ req[c].customCode = req[d].code
        /\ req[c].status = 201
        /\ req[c].link \in links
        /\ req[c].link.id \notin req[d].affected

\* ------------------------------------------------------------------ C8
\* C8: a visit whose lookup finds no link with its code is answered 404 Not
\* found at that step, and the step changes no row, opens no write and draws
\* no id.
MissingVisitNotFound ==
    [][ \A p \in Procs :
          ( /\ req[p].pc = "select"
            /\ \A r \in links : r.code # req[p].code
            /\ req'[p] # req[p] )
          => ( /\ req'[p].pc = "done"
               /\ req'[p].status = 404
               /\ req'[p].body = "Not found"
               /\ req'[p].affected = {}
               /\ links' = links
               /\ pending' = pending
               /\ nextId' = nextId ) ]_vars

\* a visit to a code without link was answered 404 while another link
\* exists, untouched
MissingVisitWitness ==
    \E p \in Visits :
        /\ Done(p)
        /\ req[p].status = 404
        /\ req[p].link = NoLink
        /\ \E r \in links : r.code # req[p].code /\ r.clicks = 0
                                                 /\ r.last_clicked = Null

\* ------------------------------------------------------------------ C9
\* the urls of the inputs that are missing or no absolute http/https url
NotHttpUrls == UrlInputs \ {Url1, Url2}

\* C9: a create whose url is missing or no absolute http/https url is
\* answered 400 Please enter a valid URL whatever its custom code, without a
\* store statement, and no row holds such a url.
InvalidUrlRejected ==
    /\ \A p \in Creates :
           req[p].url \in NotHttpUrls =>
               /\ Done(p)
               /\ req[p].status = 400
               /\ req[p].body = "Please enter a valid URL"
               /\ req[p].queries = 0
               /\ req[p].affected = {}
               /\ req[p].link = NoLink
    /\ \A r \in links : r.url \notin NotHttpUrls

\* an ftp url was refused although it came with a custom code that is valid
\* and already taken
InvalidUrlWitness ==
    \E p \in Creates :
        /\ req[p].url = <<"ftp", ":", "//", "files.example.com">>
        /\ req[p].customCode = CodeA
        /\ req[p].status = 400
        /\ \E r \in links : r.code = CodeA

\* ----------------------------------------------------------------- C10
\* the custom codes of the inputs that do not match ^[A-Za-z0-9]{6,8}$
MalformedCodes == CustomCodeInputs \ {NoValue, CodeA}

RejectedForCode(p) ==
    /\ Done(p)
    /\ req[p].status = 400
    /\ req[p].body = "Code must be 6-8 alphanumeric characters"
    /\ req[p].queries = 0
    /\ req[p].attempts = 0
    /\ req[p].code = req[p].customCode
    /\ req[p].affected = {}

\* C10 as claimed: a create with a valid url and a supplied custom code that
\* does not match the pattern is answered 400 without a store statement and
\* without a generated code.
MalformedCodeRejected ==
    \A p \in Creates :
        (req[p].url \in {Url1, Url2} /\ req[p].customCode \in MalformedCodes)
            => RejectedForCode(p)

\* C10 as amended: the same for every such custom code but the empty string.
NonEmptyMalformedCodeRejected ==
    /\ \A p \in Creates :
           ( /\ req[p].url \in {Url1, Url2}
             /\ req[p].customCode \in MalformedCodes \ {<<>>} )
               => RejectedForCode(p)
    /\ \A r \in links : r.code \notin MalformedCodes

\* "ab" was refused while the table holds a link
MalformedCodeWitness ==
    \E p \in Creates :
        /\ req[p].url = Url1
        /\ req[p].customCode = <<"a", "b">>
        /\ RejectedForCode(p)
        /\ links # {}

\* ----------------------------------------------------------------- C11
\* the step in which create p is answered 201
CreateSucceeds(p) ==
    /\ req[p].op = "create"
    /\ req[p].pc # "done"
    /\ req'[p].pc = "done"
    /\ req'[p].status = 201

\* the step adds exactly one row, of a new id, with clicks = 0, last_clicked
\* = null and the url of the request, with the custom code when withCode;
\* the response is built from that row (code, url, clicks)
AddsLink(p, withCode) ==
    \E row \in links' :
        /\ row \notin links
        /\ links' = links \cup {row}
        /\ \A r \in links : r.id # row.id
        /\ row.clicks = 0
        /\ row.last_clicked = Null
        /\ row.url = req[p].url
        /\ withCode => row.code = req[p].customCode
        /\ req'[p].link = row

\* C11 as claimed: every successful create adds exactly one link with clicks
\* = 0, last_clicked = null and the request's url, whose code is the custom
\* code whenever the request carried one; the response reports that row.
CreateAddsSuppliedCode ==
    [][ \A p \in Procs :
          CreateSucceeds(p) => AddsLink(p, req[p].customCode # NoValue) ]_vars

\* C11 as amended: the same, the code being the custom code whenever the
\* request carried a non-empty one.
CreateAddsLink ==
    [][ \A p \in Procs :
          CreateSucceeds(p) => AddsLink(p, CodeSupplied(req[p].customCode)) ]_vars

\* one create succeeded with its custom code, another with a generated code,
\* and both rows are in the table
CreateAddsLinkWitness ==
    \E p \in Creates : \E q \in Creates :
        /\ req[p].status = 201 /\ req[q].status = 201
        /\ req[p].customCode = CodeA /\ req[p].link.code = CodeA
        /\ req[q].customCode = NoValue /\ req[q].link.code = CodeG
        /\ req[p].link \in links /\ req[q].link \in links

\* ----------------------------------------------------------------- C12
\* C12: a get of a code that a create was answered 201 for, with no delete of
\* that code having succeeded, is answered 200 with a record whose url is the
\* url of that create request, however many visits came in between.
RoundTrip ==
    [][ \A p \in Procs :
          (req[p].pc = "idle" /\ req'[p].op = "get") =>
            \A w \in Creates :
                ( /\ req[w].status = 201
                  /\ req[w].link.code = req'[p].code
                  /\ NoDeleteOf(req'[p].code) )
                => ( /\ req'[p].status = 200
                     /\ req'[p].link.url = req[w].url
                     /\ req'[p].link.code = req[w].link.code ) ]_vars

\* a link created with the url that has a path was fetched after a visit
RoundTripWitness ==
    \E p \in Procs : \E w \in Creates :
        /\ req[p].op = "get" /\ req[p].status = 200
        /\ req[w].status = 201 /\ req[w].url = Url2
        /\ req[p].link.id \in req[w].affected
        /\ req[p].link.url = Url2
        /\ req[p].link.clicks >= 1
        /\ NoDeleteOf(req[p].code)

\* ----------------------------------------------------------------- C13
\* the deletes of code c that were answered Deleted
Deleted(c) == { d \in Deletes : req[d].code = c /\ req[d].status = 200 }

\* no create has made a link of code c
NoCreateOf(c) ==
    \A w \in Creates : req[w].status = 201 => req[w].link.code # c

\* C13: a delete of a code without link is answered 404 Link not found and
\* changes nothing in the store; a delete of a code with a link is answered
\* 200 and removes it; every row is removed by at most one delete, so of the
\* deletes of one code with no create of that code at most one is answered
\* Deleted and every other one NotFound.
DeleteOnce ==
    /\ [][ \A p \in Procs :
             (req[p].pc = "idle" /\ req'[p].op = "delete") =>
                IF \E r \in links : r.code = req'[p].code
                THEN /\ req'[p].status = 200
                     /\ links' = { r \in links : r.code # req'[p].code }
                ELSE /\ req'[p].status = 404
                     /\ req'[p].body = "Link not found"
                     /\ links' = links
                     /\ nextId' = nextId
                     /\ pending' = pending ]_vars
    /\ [](\A d \in Deletes :
             /\ req[d].status \in {200, 404}
             /\ req[d].status = 200 <=> req[d].affected # {}
             /\ \A r \in links : r.id \notin req[d].affected
             /\ \A e \in Deletes \ {d} : req[d].affected \cap req[e].affected = {})
    /\ [](\A c \in PathCodes : NoCreateOf(c) => Cardinality(Deleted(c)) <= 1)

\* three deletes of the code of the link the table held from the start, and
\* no create of it: one was answered Deleted, two NotFound
DeleteOnceWitness ==
    \E c \in PathCodes :
        /\ NoCreateOf(c)
        /\ Cardinality(Deleted(c)) = 1
        /\ Cardinality({ d \in Deletes : req[d].code = c /\ req[d].status = 404 }) = 2

\* ----------------------------------------------------------------- C14
\* the step in which visit p commits
VisitCommits(p) ==
    /\ req[p].op = "visit"
    /\ req[p].pc = "commit"
    /\ req'[p].pc = "done"

\* C14: the commit of a visit whose update found the link leaves the link's
\* last_clicked at that visit's timestamp (the NOW() of its transaction), and
\* last_clicked of a link changes in no other step: once the visits to a code
\* have completed, last_clicked is the timestamp of the visit that committed
\* last.
LastCommitWins ==
    [][ /\ \A p \in Procs :
             (VisitCommits(p) /\ req[p].affected # {}) =>
                 \E r \in links' :
                     /\ r.id \in req[p].affected
                     /\ r.code = req[p].code
                     /\ r.last_clicked = <<req[p].txnStart>>
        /\ \A r \in links : \A s \in links' :
             (r.id = s.id /\ r.last_clicked # s.last_clicked) =>
                 \E p \in Procs : VisitCommits(p) /\ req[p].code = r.code ]_vars

\* two visits to one code, begun at different times, have both completed; the
\* one that began first committed last, and last_clicked holds its timestamp
LastCommitWinsWitness ==
    \E p \in Visits : \E q \in Visits : \E r \in links :
        /\ req[p].status = 302 /\ req[q].status = 302
        /\ req[p].code = r.code /\ req[q].code = r.code
        /\ req[p].txnStart < req[q].txnStart
        /\ req[p].link.clicks = 0 /\ req[q].link.clicks = 0
        /\ r.clicks = 2
        /\ r.last_clicked = <<req[p].txnStart>>

\* ----------------------------------------------------------------- C15
\* C15: clicks of a link is never negative; from one state to the next the
\* clicks of a row that stays in the table is unchanged or greater by exactly
\* 1, and it changes only in the commit of a visit to that row's code.
ClicksOnlyGrow ==
    /\ [](\A r \in links : r.clicks >= 0)
    /\ [][ \A r \in links : \A s \in links' :
             r.id = s.id =>
                \/ s.clicks = r.clicks
                \/ /\ s.clicks = r.clicks + 1
                   /\ \E p \in Procs : VisitCommits(p) /\ req[p].code = r.code ]_vars

\* a link was visited once; a create with its code was then refused and a get
\* saw the counter at 1, where it still is
ClicksOnlyGrowWitness ==
    \E r \in links : \E w \in Creates : \E g \in Procs :
        /\ r.clicks = 1
        /\ req[w].status = 409 /\ req[w].code = r.code
        /\ req[g].op = "get" /\ req[g].link.id = r.id /\ req[g].link.clicks = 1

\* ----------------------------------------------------------------- C16
\* C16: last_clicked of a row that stays in the table never returns to null
\* and never changes to an earlier timestamp than the one it holds.
LastClickedMonotonic ==
    [][ \A r \in links : \A s \in links' :
          (r.id = s.id /\ r.last_clicked # Null) =>
              /\ s.last_clicked # Null
              /\ s.last_clicked[1] >= r.last_clicked[1] ]_vars

\* ----------------------------------------------------------------- C17
\* C17: no step changes the code, url or created_at of a row that stays in
\* the table (rows are told apart by id); a step of a visit to code c adds
\* and removes no row and leaves every row of another code as it is.
FrameKept ==
    [][ /\ \A r \in links : \A s \in links' :
             r.id = s.id =>
                 /\ s.code = r.code
                 /\ s.url = r.url
                 /\ s.created_at = r.created_at
        /\ \A p \in Procs :
             (req'[p].op = "visit" /\ req'[p] # req[p]) =>
                 /\ { s.id : s \in links' } = { r.id : r \in links }
                 /\ \A r \in links : r.code # req'[p].code => r \in links' ]_vars

\* two links exist; a visit to one was redirected and counted, and the other
\* link is as it was inserted
FrameKeptWitness ==
    \E p \in Visits : \E r \in links : \E s \in links :
        /\ req[p].status = 302
        /\ r.code = req[p].code /\ r.clicks = 1
        /\ s.code # r.code /\ s.clicks = 0 /\ s.last_clicked = Null

\* ----------------------------------------------------------------- C18
\* C18: a list request is answered with a sequence that holds every row of
\* the table at the time of the query exactly once and no other, in which no
\* row comes after a row of an earlier created_at; the request changes
\* nothing in the store.
ListExact ==
    [][ \A p \in Procs :
          (req[p].pc = "idle" /\ req'[p].op = "list") =>
             LET s == req'[p].rows
             IN  /\ req'[p].status = 200
                 /\ Len(s) = Cardinality(links)
                 /\ { s[i] : i \in 1..Len(s) } = links
                 /\ \A i \in 1..Len(s) : \A j \in 1..Len(s) :
                        i < j => ~(s[i].created_at < s[j].created_at)
                 /\ links' = links
                 /\ pending' = pending
                 /\ nextId' = nextId ]_vars

\* a list returned the link the table held from the start and, before it, a
\* link that a create added at a later time
ListExactWitness ==
    \E p \in Procs : \E w \in Creates :
        /\ req[p].op = "list" /\ req[p].status = 200
        /\ Len(req[p].rows) = 2
        /\ req[p].rows[1].created_at > req[p].rows[2].created_at
        /\ req[w].status = 201
        /\ req[p].rows[1] = req[w].link

\* ----------------------------------------------------------------- C19
\* the step in which delete p is answered Deleted
DeleteSucceeds(p) ==
    /\ req[p].pc = "idle"
    /\ req'[p].op = "delete"
    /\ req'[p].status = 200

\* C19: a row enters the table only in the step of a create answered 201,
\* as the row of that response, and leaves it only in the step of a delete of
\* its code answered 200; every other step (of a visit, a get, a list, a
\* refused create, a delete answered 404) leaves the set of rows' ids, and so
\* the set of existing codes, as it is.
Lifecycle ==
    [][ /\ \A s \in links' :
             (\A r \in links : r.id # s.id) =>
                 \E p \in Procs : CreateSucceeds(p) /\ req'[p].link = s
        /\ \A r \in links :
             (\A s \in links' : s.id # r.id) =>
                 \E p \in Procs : DeleteSucceeds(p) /\ req'[p].code = r.code
        /\ \A p \in Procs :
             (req'[p] # req[p] /\ ~CreateSucceeds(p) /\ ~DeleteSucceeds(p)) =>
                 /\ { s.id : s \in links' } = { r.id : r \in links }
                 /\ { s.code : s \in links' } = { r.code : r \in links } ]_vars

\* a link was deleted between the lookup and the update of a visit; a second
\* delete of its code was answered 404; the visit completed and the code
\* has no link
LifecycleWitness ==
    \E v \in Visits : \E d \in Deletes : \E e \in Deletes :
        /\ Done(v) /\ DeletedAfterLookup(v)
        /\ req[d].code = req[v].code /\ req[d].status = 200
        /\ req[e].code = req[v].code /\ req[e].status = 404
        /\ \A r \in links : r.code # req[v].code

\* ----------------------------------------------------------------- C20
\* C20: the insert of a code that a row holds is rejected by the uniqueness
\* constraint unless the statement fails otherwise, and a create whose insert
\* was so rejected is answered 409 Code already exists, with a custom code
\* and with a generated one; a create one of whose statements failed with
\* any other error is answered 500 and has inserted no row; the step in which
\* a statement fails changes no row.
ConflictIsCodeTaken ==
    /\ [](\A p \in Creates :
             /\ req[p].error = UniqueViolationCode =>
                    /\ Done(p)
                    /\ req[p].status = 409
                    /\ req[p].body = "Code already exists"
                    /\ req[p].affected = {}
             /\ req[p].error \notin {"", UniqueViolationCode} =>
                    /\ Done(p)
                    /\ req[p].status = 500
                    /\ req[p].affected = {}
                    /\ req[p].link = NoLink
                    /\ \A r \in links : r.id \notin req[p].affected)
    /\ [][ \A p \in Procs :
             /\ req'[p].error # req[p].error => links' = links
             /\ ( /\ req[p].pc = "insert"
                  /\ \E r \in links : r.code = req[p].code
                  /\ req'[p] # req[p]
                  /\ req'[p].error \notin OtherErrors )
                => req'[p].error = UniqueViolationCode ]_vars

\* the insert of a custom code and the insert of a generated code were both
\* rejected by the constraint, and a third create met another store error
ConflictIsCodeTakenWitness ==
    \E p \in Creates : \E q \in Creates : \E f \in Creates :
        /\ req[p].customCode = CodeA /\ req[p].error = UniqueViolationCode
        /\ req[p].status = 409
        /\ req[q].customCode = NoValue /\ req[q].error = UniqueViolationCode
        /\ req[q].status = 409
        /\ req[f].error \in OtherErrors /\ req[f].status = 500

\* ----------------------------------------------------------------- C21
Alphanumeric == Upper \cup Lower \cup Digits

\* the creates that took the random path and have generated a code
Generating ==
    { p \in Creates : req[p].pc \in {"probe", "insert"}
                      \/ (Done(p) /\ req[p].queries > 0
                                  /\ ~CodeSupplied(req[p].customCode)) }

\* C21: the code of every row has 6 to 8 characters, all of [A-Za-z0-9]; the
\* code a create of the random path holds has exactly 6 characters, all of
\* [A-Za-z0-9], and every index Math.floor(Math.random() * 62) can yield
\* selects such a character.
CodeFormat ==
    /\ \A r \in links :
           /\ Len(r.code) \in 6..8
           /\ \A i \in 1..Len(r.code) : r.code[i] \in Alphanumeric
    /\ \A p \in Generating :
           ~CodeSupplied(req[p].customCode) =>
               /\ Len(req[p].code) = 6
               /\ \A i \in 1..6 : req[p].code[i] \in Alphanumeric
    /\ \A k \in 0..61 :
           LET code == generateRandomCode(6, [i \in 1..6 |-> k])
           IN  Len(code) = 6 /\ \A i \in 1..6 : code[i] \in Alphanumeric

\* the table holds a link of a custom code and a link of a generated code,
\* and a create with a hyphen in its 7-character custom code was refused
CodeFormatWitness ==
    \E p \in Creates : \E q \in Creates : \E x \in Creates :
        /\ req[p].status = 201 /\ req[p].customCode = CodeA
        /\ req[q].status = 201 /\ ~CodeSupplied(req[q].customCode)
        /\ req[p].link \in links /\ req[q].link \in links
        /\ req[x].customCode = <<"g","i","t","-","h","u","b">>
        /\ req[x].status = 400

ValidCustom ==
    { p \in Creates : CodeSupplied(req[p].customCode) /\ req[p].status # 400 }

\* C23: a create with a valid custom code never probes: it goes from
\* validation to the insert with its custom code, runs exactly one store
\* statement, and that statement succeeds exactly when no row holds the code
\* in the state where the insert runs.
CustomNeverProbes ==
    /\ [](\A p \in ValidCustom :
             /\ req[p].pc \in {"insert", "done"}
             /\ req[p].code = req[p].customCode
             /\ req[p].attempts = 0
             /\ req[p].queries = (IF Done(p) THEN 1 ELSE 0)
             /\ Done(p) => req[p].status \in {201, 409})
    /\ [][ \A p \in Procs :
             ( /\ req[p].pc = "insert"
               /\ CodeSupplied(req[p].customCode)
               /\ req'[p] # req[p] )
             => ( req'[p].status = 201 <=>
                      \A r \in links : r.code # req[p].customCode ) ]_vars

\* of two creates with the custom code of a link, one was refused while the
\* link existed and one succeeded after a delete of the link
CustomNeverProbesWitness ==
    \E p \in ValidCustom : \E q \in ValidCustom : \E d \in Deletes :
        /\ req[p].customCode = req[q].customCode
        /\ req[d].code = req[p].customCode
        /\ req[p].status = 409 /\ req[p].queries = 1
        /\ req[d].status = 200
        /\ req[q].status = 201 /\ req[q].queries = 1
        /\ req[q].link \in links

\* ----------------------------------------------------------------- C24
\* the creates of the random path
RandomCreates ==
    { p \in Creates : ~CodeSupplied(req[p].customCode) /\ req[p].status # 400 }

\* C24: a create of the random path runs at most 5 probes and then at most
\* one insert (every store statement it runs brings it nearer to its
\* response: at most 6 in all); a probe that finds the candidate unused
\* generates no code and passes to the insert with that candidate, and the
\* insert ends the request with the code it was given.
BoundedAllocation ==
    /\ [](\A p \in RandomCreates :
             /\ req[p].attempts <= 5
             /\ req[p].pc = "probe" =>
                    (req[p].queries = req[p].attempts /\ req[p].attempts < 5)
             /\ req[p].pc = "insert" =>
                    (req[p].queries <= 5 /\ req[p].queries - req[p].attempts \in {0, 1})
             /\ Done(p) => req[p].queries <= 6)
    /\ [][ \A p \in Procs :
             (req[p].op = "create" /\ req'[p] # req[p]
                                   /\ ~CodeSupplied(req[p].customCode)) =>
                /\ req'[p].queries = req[p].queries + 1
                /\ ( req[p].pc = "probe" /\ \A r \in links : r.code # req[p].code )
                   => ( /\ req'[p].pc = "insert"
                        /\ req'[p].code = req[p].code
                        /\ req'[p].attempts = req[p].attempts )
                /\ req[p].pc = "insert"
                   => ( /\ req'[p].pc = "done"
                        /\ req'[p].code = req[p].code
                        /\ req'[p].status = 201 => req'[p].link.code = req[p].code )
           ]_vars

\* one create found its second candidate unused and inserted it after two
\* probes; another ran five probes and the insert
BoundedAllocationWitness ==
    \E p \in RandomCreates : \E q \in RandomCreates :
        /\ Done(p) /\ req[p].attempts = 1 /\ req[p].queries = 3
        /\ req[p].status = 201
        /\ Done(q) /\ req[q].attempts = 5 /\ req[q].queries = 6

\* ----------------------------------------------------------------- C25
\* the step in which a statement of visit p's transaction fails
VisitFails(p) ==
    /\ req[p].pc \in {"select", "update", "commit"}
    /\ req'[p].error # ""

\* C25: the step in which the lookup, the update or the commit of a visit
\* fails rolls the transaction back (what it wrote is dropped, no row
\* changes) and answers 500 Internal server error; a visit that met a store
\* error is never answered with the redirect or with 404, and a link's
\* clicks counts the redirected visits alone.
VisitFailureRollsBack ==
    /\ [][ \A p \in Procs :
             VisitFails(p) =>
                 /\ links' = links
                 /\ pending'[p] = {}
                 /\ req'[p].txn = "rollback"
                 /\ req'[p].pc = "done"
                 /\ req'[p].status = 500
                 /\ req'[p].body = "Internal server error" ]_vars
    /\ [](\A p \in Visits :
             req[p].error # "" => (Done(p) /\ req[p].status = 500))
    /\ [](\A r \in links :
             /\ NoDeleteOf(r.code) => r.clicks = Cardinality(Redirected(r.code))
             /\ r.clicks = 0 => r.last_clicked = Null)

\* the commit of a visit failed after its update had matched the link, which
\* has no click; another visit failed at its lookup
VisitFailureWitness ==
    \E p \in Visits : \E q \in Visits : \E r \in links :
        /\ p # q
        /\ req[p].error # "" /\ req[p].affected = {r.id} /\ req[p].queries = 5
        /\ req[q].error # "" /\ req[q].queries = 3
        /\ r.clicks = 0 /\ r.last_clicked = Null

\* ----------------------------------------------------------------- C26
\* the visits between their BEGIN and their response
InFlight == { p \in Visits : ~Done(p) }

RedirectMatchesCounted ==
    \A p \in Visits :
        req[p].status = 302 =>
            \A r \in links :
                r.id \in req[p].affected => r.url = req[p].link.url

\* ----------------------------------------------------------------- C28
\* C28: a create with a valid url and the empty string as customCode leaves
\* validation as a create without customCode does: with a generated code of
\* 6 characters of [A-Za-z0-9], no attempt counted, on its way to the first
\* probe; it is never answered 400.
EmptyCodeIsAbsent ==
    /\ [][ \A p \in Procs :
             ( /\ req[p].pc = "idle"
               /\ req'[p].op = "create"
               /\ req'[p].customCode = <<>>
               /\ req'[p].url \in {Url1, Url2} )
             => ( /\ req'[p].pc = "probe"
                  /\ req'[p].status = 0
                  /\ req'[p].attempts = 0
                  /\ req'[p].queries = 0
                  /\ Len(req'[p].code) = 6
                  /\ \A i \in 1..6 : req'[p].code[i] \in Alphanumeric
                  /\ \E rnd \in RandomDraws :
                         req'[p] = [req[p] EXCEPT
                                       !.op = "create",
                                       !.url = req'[p].url,
                                       !.customCode = <<>>,
                                       !.code = generateRandomCode(CodeLength, rnd),
                                       !.pc = "probe"] ) ]_vars
    /\ [](\A p \in Creates :
             (req[p].customCode = <<>> /\ req[p].url \in {Url1, Url2}) =>
                 /\ req[p].status # 400
                 /\ req[p].body # "Code must be 6-8 alphanumeric characters"
                 /\ req[p].status = 201 => Len(req[p].link.code) = 6)

\* a create with customCode = '' added a link of a generated code
EmptyCodeWitness ==
    \E p \in Creates :
        /\ req[p].customCode = <<>>
        /\ req[p].status = 201
        /\ req[p].queries = 2
        /\ req[p].link.code = CodeG
        /\ req[p].link \in links

\* ----------------------------------------------------------------- C29
\* C29: in every state, every row of the table (what a reader's statement
\* sees) has last_clicked = null exactly when its clicks = 0.
StampWithCount ==
    \A r \in links : r.last_clicked = Null <=> r.clicks = 0

\* a link has been counted once and has its timestamp, while a second visit
\* holds its uncommitted second increment; a get has read the link before any
\* click
StampWithCountWitness ==
    \E r \in links : \E p \in Procs : \E w \in pending[p] : \E g \in Procs :
        /\ r.clicks = 1 /\ r.last_clicked # Null
        /\ w.id = r.id /\ w.clicks = 2
        /\ req[g].op = "get" /\ req[g].link.id = r.id
        /\ req[g].link.clicks = 0 /\ req[g].link.last_clicked = Null

\* ----------------------------------------------------------------- C30
\* C30: when the onLinkDeleted callbacks of two different codes have run
\* after successful deletes, with no fetch of the list since, the dashboard
\* shows neither code.
BothDeletedGone ==
    \A a \in dash.removed : \A b \in dash.removed :
        a # b => (a \notin Displayed /\ b \notin Displayed)

====
